---- MODULE Spec2Model ----
(***************************************************************************)
(* Discrete-event CPU scheduling simulator (FCFS / Round Robin) of         *)
(* "Scheduling Algorithms/21CS10021_LA3.c": process table, event min-heap, *)
(* circular ready queue, the main loop of run_scheduler and schedule_next. *)
(***************************************************************************)
EXTENDS Integers, Sequences, FiniteSets, TLC

VARIABLES
  g_processes,      \* PCB table, a function 0..g_numProcs-1 -> PCB
  g_numProcs,       \* number of processes read by read_input_file
  q,                \* the quantum passed to run_scheduler
  eventQ,           \* EventMinHeap: heapArray (size = its length), capacity
  readyQ,           \* ReadyQueue: data, capacity, front, rear, count
  current_time,
  cpu_idle_time,
  cpu_busy_until,
  running_pid,
  running_end_time,
  finished_count,
  evt,              \* the event most recently returned by eventHeap_pop
  pc,               \* "start": before run_scheduler, "loop": at the head of
                    \* its main loop, "done": after the loop,
                    \* "heap": the heap exercised on its own
  records,          \* lines printed by print_per_process_metrics, in order
  timeline,         \* "is scheduled to run" lines of schedule_next, in order
  aggregate,        \* arguments of print_aggregate_metrics, set at loop exit
  enq_stamp,        \* history: ordinal of each process's latest RQ_enqueue
  enq_count,        \* history: number of successful RQ_enqueue calls so far
  input_file,       \* the process lines of input.txt
  main_call,        \* which run_scheduler call of main is in progress
                    \* (1..3), 0 when run_scheduler is called on its own
  overflows,        \* "overflow!" lines written to stderr so far
  wait_log,         \* history: the wait added by each dispatch, in order
  handled,          \* history: the events popped by the main loop, in order
  foodep,           \* rebuild: foodep.txt, the dependency list of each foodule
  done_txt,         \* rebuild: done.txt, one visited bit per foodule
  rb,               \* rebuild: the processes created so far, in fork order
  rb_out            \* rebuild: the foodules reported "rebuilt", in order

vars == <<g_processes, g_numProcs, q, eventQ, readyQ, current_time,
          cpu_idle_time, cpu_busy_until, running_pid, running_end_time,
          finished_count, evt, pc, records, timeline, aggregate,
          enq_stamp, enq_count, input_file, main_call, overflows, wait_log,
          handled, foodep, done_txt, rb, rb_out>>

\* the state of the rebuild program, which the scheduler never touches
rebuildVars == <<foodep, done_txt, rb, rb_out>>

----------------------------------------------------------------------------
(* Program constants *)

EVT_ARRIVE == 0
EVT_CPU_COMPLETE == 1
EVT_CPU_TIMEOUT == 2
INT_MAX == 2147483647
FCFS_QUANTUM == 1000000000
HEAP_FACTOR == 4
RQ_EXTRA == 10
RR_QUANTUM_A == 10
RR_QUANTUM_B == 5

(* Bounds of the explored inputs *)

MaxArrival == 1
MaxCpu == 2
MaxIo == 1
MaxQuantum == 2
MaxHeapSize == 5
MaxReports == 1
MaxFoodules == 4

----------------------------------------------------------------------------
(* Small helpers *)

\* a C array that calloc zero-filled: entries never stored read as 0
ArrGet(arr, i) == IF (i + 1) \in DOMAIN arr THEN arr[i + 1] ELSE 0

----------------------------------------------------------------------------
(* read_input_file *)

NewPCB(pid, arrival) ==
  [id |-> pid, arrival_time |-> arrival, num_bursts |-> 0,
   cpu_bursts |-> <<>>, io_bursts |-> <<>>,
   current_burst |-> 0, remaining_cpu |-> 0, total_cpu_io |-> 0,
   wait_time |-> 0, finish_time |-> 0,
   last_ready_time |-> 0, start_run_time |-> 0]

\* the while(1) loop reading alternating CPU and I/O durations; toks is the
\* rest of the process's line, i the 1-based position of the next token
RECURSIVE ReadBursts(_, _, _)
ReadBursts(toks, i, p) ==
  LET cpu == toks[i] IN
  IF cpu = -1 THEN p
  ELSE LET p1 == [p EXCEPT !.cpu_bursts = Append(@, cpu),
                           !.total_cpu_io = @ + cpu]
           io == toks[i + 1]
       IN IF io = -1 THEN p1
          ELSE ReadBursts(toks, i + 2,
                          [p1 EXCEPT !.io_bursts = Append(@, io),
                                     !.total_cpu_io = @ + io])

LoadProcess(line) ==
  LET p == ReadBursts(line.toks, 1, NewPCB(line.pid, line.arrival))
  IN [p EXCEPT !.num_bursts = Len(p.cpu_bursts),
               !.remaining_cpu = ArrGet(p.cpu_bursts, 0)]

\* input: the sequence of process lines of input.txt
read_input_file(input) ==
  [i \in 0..(Len(input) - 1) |-> LoadProcess(input[i + 1])]

----------------------------------------------------------------------------
(* Event min-heap *)

compareEvents_NoKind(a, b, procs) ==
  IF a.time < b.time THEN -1
  ELSE IF a.time > b.time THEN 1
  ELSE LET idA == procs[a.pid].id
           idB == procs[b.pid].id
       IN IF idA < idB THEN -1
          ELSE IF idA > idB THEN 1
          ELSE 0

compareEvents_KindReversed(a, b, procs) ==
  IF a.time < b.time THEN -1
  ELSE IF a.time > b.time THEN 1
  ELSE IF a.type > b.type THEN -1
  ELSE IF a.type < b.type THEN 1
  ELSE LET idA == procs[a.pid].id
           idB == procs[b.pid].id
       IN IF idA < idB THEN -1
          ELSE IF idA > idB THEN 1
          ELSE 0

compareEvents(a, b, procs) ==
  IF a.time < b.time THEN -1
  ELSE IF a.time > b.time THEN 1
  ELSE IF a.type < b.type THEN -1
  ELSE IF a.type > b.type THEN 1
  ELSE LET idA == procs[a.pid].id
           idB == procs[b.pid].id
       IN IF idA < idB THEN -1
          ELSE IF idA > idB THEN 1
          ELSE 0

\* heapArray is a sequence; C index k is element k+1
swapEvents(arr, i, j) == [arr EXCEPT ![i + 1] = arr[j + 1], ![j + 1] = arr[i + 1]]

RECURSIVE bubbleUp(_, _, _)
bubbleUp(arr, idx, procs) ==
  IF idx > 0
  THEN LET parent == (idx - 1) \div 2 IN
       IF compareEvents(arr[idx + 1], arr[parent + 1], procs) < 0
       THEN bubbleUp(swapEvents(arr, idx, parent), parent, procs)
       ELSE arr
  ELSE arr

RECURSIVE bubbleDown(_, _, _)
bubbleDown(arr, idx, procs) ==
  LET size == Len(arr)
      left == 2 * idx + 1
      right == 2 * idx + 2
      s1 == IF left < size /\ compareEvents(arr[left + 1], arr[idx + 1], procs) < 0
            THEN left ELSE idx
      smallest == IF right < size /\ compareEvents(arr[right + 1], arr[s1 + 1], procs) < 0
                  THEN right ELSE s1
  IN IF smallest # idx
     THEN bubbleDown(swapEvents(arr, idx, smallest), smallest, procs)
     ELSE arr

eventHeap_init(capacity) == [heapArray |-> <<>>, capacity |-> capacity]

eventHeap_empty(mh) == Len(mh.heapArray) = 0

\* the test guarding the overflow report of eventHeap_push
eventHeap_full(mh) == Len(mh.heapArray) >= mh.capacity

eventHeap_push(mh, ev, procs) ==
  IF eventHeap_full(mh)
  THEN mh
  ELSE [mh EXCEPT !.heapArray =
          bubbleUp(Append(mh.heapArray, ev), Len(mh.heapArray), procs)]

\* returns the popped event and the heap it leaves
eventHeap_pop(mh, procs) ==
  IF Len(mh.heapArray) = 0
  THEN [top |-> [time |-> INT_MAX, type |-> EVT_ARRIVE, pid |-> -1], heap |-> mh]
  ELSE LET arr == mh.heapArray
           n1 == Len(arr) - 1
       IN [top |-> arr[1],
           heap |-> [mh EXCEPT !.heapArray =
                       IF n1 > 0
                       THEN bubbleDown([SubSeq(arr, 1, n1) EXCEPT ![1] = arr[n1 + 1]], 0, procs)
                       ELSE <<>>]]

----------------------------------------------------------------------------
(* Ready queue (circular buffer) *)

\* malloc leaves data unset; no slot is read before RQ_enqueue stored to it
RQ_init(capacity) ==
  [data |-> [i \in 0..(capacity - 1) |-> -1], capacity |-> capacity,
   front |-> 0, rear |-> -1, count |-> 0]

RQ_isEmpty(rq) == rq.count = 0

RQ_enqueue_NoReadyTime(S, pid, t) ==
  IF S.readyQ.count = S.readyQ.capacity
  THEN [S EXCEPT !.overflows = @ + 1]
  ELSE LET rear1 == (S.readyQ.rear + 1) % S.readyQ.capacity IN
       [S EXCEPT !.readyQ = [@ EXCEPT !.rear = rear1,
                                      !.data = [@ EXCEPT ![rear1] = pid],
                                      !.count = @ + 1],
                 !.enq_count = @ + 1,
                 !.enq_stamp = [@ EXCEPT ![pid] = S.enq_count + 1]]

\* S is the record of everything a handler can change
RQ_enqueue(S, pid, t) ==
  IF S.readyQ.count = S.readyQ.capacity
  THEN [S EXCEPT !.overflows = @ + 1]
  ELSE LET rear1 == (S.readyQ.rear + 1) % S.readyQ.capacity IN
       [S EXCEPT !.readyQ = [@ EXCEPT !.rear = rear1,
                                      !.data = [@ EXCEPT ![rear1] = pid],
                                      !.count = @ + 1],
                 !.procs = [@ EXCEPT ![pid].last_ready_time = t],
                 !.enq_count = @ + 1,
                 !.enq_stamp = [@ EXCEPT ![pid] = S.enq_count + 1]]

RQ_dequeue_FromRear(rq) ==
  IF RQ_isEmpty(rq)
  THEN [pid |-> -1, rq |-> rq]
  ELSE [pid |-> rq.data[rq.rear],
        rq |-> [rq EXCEPT !.rear = (rq.rear + rq.capacity - 1) % rq.capacity,
                          !.count = @ - 1]]

RQ_dequeue(rq) ==
  IF RQ_isEmpty(rq)
  THEN [pid |-> -1, rq |-> rq]
  ELSE [pid |-> rq.data[rq.front],
        rq |-> [rq EXCEPT !.front = (rq.front + 1) % rq.capacity,
                          !.count = @ - 1]]

\* the queued pids from front to rear
RQ_contents(rq) ==
  [k \in 1..rq.count |-> rq.data[(rq.front + k - 1) % rq.capacity]]

----------------------------------------------------------------------------
(* Dispatcher and printing *)

Slice_OneMore(rem, qq) == IF rem > qq THEN qq ELSE rem + 1

Slice(rem, qq) == IF rem > qq THEN qq ELSE rem

IdleGap_None(t, busy_until) == 0

\* the CPU-free interval [busy_until, t) that a dispatch at t adds to the idle time
IdleGap(t, busy_until) == IF t > busy_until THEN t - busy_until ELSE 0

\* eventHeap_push as a handler sees it: the heap and the stderr report
PostEvent(S, e) ==
  [S EXCEPT !.eventQ = eventHeap_push(@, e, S.procs),
            !.overflows = IF eventHeap_full(S.eventQ) THEN @ + 1 ELSE @]

DispatchType_QuantumExpires(rem, qq) ==
  IF rem < qq THEN EVT_CPU_COMPLETE ELSE EVT_CPU_TIMEOUT

DispatchType(rem, qq) ==
  IF Slice(rem, qq) = rem THEN EVT_CPU_COMPLETE ELSE EVT_CPU_TIMEOUT

schedule_next(S, t, qq) ==
  IF S.running_pid >= 0 THEN S
  ELSE IF ~RQ_isEmpty(S.readyQ)
  THEN LET d == RQ_dequeue(S.readyQ)
           pid == d.pid
           p == S.procs[pid]
           slice == Slice(p.remaining_cpu, qq)
           e == [time |-> t + slice,
                 type |-> DispatchType(p.remaining_cpu, qq),
                 pid |-> pid]
       IN PostEvent(
            [S EXCEPT
               !.readyQ = d.rq,
               !.procs = [@ EXCEPT ![pid].wait_time = @ + (t - p.last_ready_time),
                                   ![pid].start_run_time = t],
               !.wait_log = Append(@, t - p.last_ready_time),
               !.cpu_idle_time = @ + IdleGap(t, S.cpu_busy_until),
               !.running_pid = pid,
               !.running_end_time = t + slice,
               !.cpu_busy_until = t + slice,
               !.timeline = Append(@, [pid |-> pid, start |-> t, slice |-> slice])],
            e)
  ELSE S

print_per_process_metrics_NoService(S, t, pid) ==
  LET tat == S.procs[pid].finish_time - S.procs[pid].arrival_time
  IN [S EXCEPT !.records =
        Append(@, [time |-> t, pid |-> pid, tat |-> tat, wtime |-> tat])]

\* the printed line without the percentage figure
print_per_process_metrics(S, t, pid) ==
  LET tat == S.procs[pid].finish_time - S.procs[pid].arrival_time
      run_time == S.procs[pid].total_cpu_io
  IN [S EXCEPT !.records =
        Append(@, [time |-> t, pid |-> pid, tat |-> tat, wtime |-> tat - run_time])]

----------------------------------------------------------------------------
(* Event handlers of the main loop *)

Account_NoProgress(S, pid, t) ==
  [S EXCEPT !.cpu_busy_until = IF t < @ THEN t ELSE @,
            !.running_pid = -1]

Account_KeepRunning(S, pid, t) ==
  LET used0 == t - S.procs[pid].start_run_time
      used_time == IF used0 < 0 THEN 0 ELSE used0
      rem0 == S.procs[pid].remaining_cpu - used_time
  IN [S EXCEPT !.procs = [@ EXCEPT ![pid].remaining_cpu = IF rem0 < 0 THEN 0 ELSE rem0],
               !.cpu_busy_until = IF t < @ THEN t ELSE @]

\* elapsed-time accounting shared by the two CPU events
Account(S, pid, t) ==
  LET used0 == t - S.procs[pid].start_run_time
      used_time == IF used0 < 0 THEN 0 ELSE used0
      rem0 == S.procs[pid].remaining_cpu - used_time
  IN [S EXCEPT !.procs = [@ EXCEPT ![pid].remaining_cpu = IF rem0 < 0 THEN 0 ELSE rem0],
               !.cpu_busy_until = IF t < @ THEN t ELSE @,
               !.running_pid = -1]

\* the process ends: stamp, count and print
FinishProcess_NoCount(S, pid, t) ==
  print_per_process_metrics(
    [S EXCEPT !.procs = [@ EXCEPT ![pid].finish_time = t]], t, pid)

FinishProcess(S, pid, t) ==
  print_per_process_metrics(
    [S EXCEPT !.procs = [@ EXCEPT ![pid].finish_time = t],
              !.finished_count = @ + 1], t, pid)

WakeupTime_Absolute(t, io_time) == io_time

WakeupTime(t, io_time) == t + io_time

StartIo_NoReset(S, pid, t, cb) ==
  LET wakeup == WakeupTime(t, ArrGet(S.procs[pid].io_bursts, cb - 1))
      S1 == PostEvent(S, [time |-> wakeup, type |-> EVT_ARRIVE, pid |-> pid])
  IN [S1 EXCEPT !.procs = [@ EXCEPT ![pid].current_burst = cb]]

\* next is I/O: schedule the return and move to CPU burst cb
StartIo(S, pid, t, cb) ==
  LET wakeup == WakeupTime(t, ArrGet(S.procs[pid].io_bursts, cb - 1))
      S1 == PostEvent(S, [time |-> wakeup, type |-> EVT_ARRIVE, pid |-> pid])
  IN [S1 EXCEPT !.procs = [@ EXCEPT ![pid].current_burst = cb,
                                    ![pid].remaining_cpu =
                                       ArrGet(S.procs[pid].cpu_bursts, cb)]]

\* the burst is over: the process exits or starts its next I/O
BurstEnd(S, pid, t) ==
  LET cb == S.procs[pid].current_burst + 1 IN
  IF cb >= S.procs[pid].num_bursts
  THEN FinishProcess(S, pid, t)
  ELSE StartIo(S, pid, t, cb)

OnArrive_EnqueueTwice(S, e, t, qq) ==
  LET S1 == RQ_enqueue(RQ_enqueue(S, e.pid, t), e.pid, t) IN
  IF S1.running_pid < 0 THEN schedule_next(S1, t, qq) ELSE S1

OnArrive(S, e, t, qq) ==
  LET S1 == RQ_enqueue(S, e.pid, t) IN
  IF S1.running_pid < 0 THEN schedule_next(S1, t, qq) ELSE S1

OnCpuComplete_NoDispatch(S, e, t, qq) ==
  BurstEnd(Account(S, e.pid, t), e.pid, t)

OnCpuComplete(S, e, t, qq) ==
  schedule_next(BurstEnd(Account(S, e.pid, t), e.pid, t), t, qq)

OnCpuTimeout_DispatchFirst(S, e, t, qq) ==
  LET S1 == schedule_next(Account(S, e.pid, t), t, qq)
  IN IF S1.procs[e.pid].remaining_cpu > 0
     THEN RQ_enqueue(S1, e.pid, t)
     ELSE BurstEnd(S1, e.pid, t)

OnCpuTimeout(S, e, t, qq) ==
  LET S1 == Account(S, e.pid, t)
      S2 == IF S1.procs[e.pid].remaining_cpu > 0
            THEN RQ_enqueue(S1, e.pid, t)
            ELSE BurstEnd(S1, e.pid, t)
  IN schedule_next(S2, t, qq)

----------------------------------------------------------------------------
(* run_scheduler: set-up *)

RECURSIVE PushArrivals(_, _, _)
PushArrivals(mh, i, procs) ==
  IF i >= Cardinality(DOMAIN procs) THEN mh
  ELSE PushArrivals(
         eventHeap_push(mh, [time |-> procs[i].arrival_time, type |-> EVT_ARRIVE,
                             pid |-> i], procs),
         i + 1, procs)

NoEvent == [time |-> 0, type |-> EVT_ARRIVE, pid |-> -1]

NoAggregate == [simulation_end |-> 0, total_wait |-> 0, total_idle |-> 0]

\* run_scheduler over a loaded table: its locals as declared and its heap;
\* lost is the number of arrivals the heap refused
Enter(procs, qq, heap, lost, where) ==
  /\ g_processes' = procs
  /\ g_numProcs' = Cardinality(DOMAIN procs)
  /\ q' = qq
  /\ eventQ' = heap
  /\ readyQ' = RQ_init(Cardinality(DOMAIN procs) + RQ_EXTRA)
  /\ current_time' = 0
  /\ cpu_idle_time' = 0
  /\ cpu_busy_until' = 0
  /\ running_pid' = -1
  /\ running_end_time' = 0
  /\ finished_count' = 0
  /\ evt' = NoEvent
  /\ pc' = where
  /\ records' = <<>>
  /\ timeline' = <<>>
  /\ aggregate' = NoAggregate
  /\ enq_stamp' = [i \in DOMAIN procs |-> 0]
  /\ enq_count' = 0
  /\ overflows' = lost
  /\ wait_log' = <<>>
  /\ handled' = <<>>
  /\ UNCHANGED rebuildVars

RunInit_KeepTable(lines, qq) ==
  LET procs == IF pc = "done" THEN g_processes ELSE read_input_file(lines)
      heap == PushArrivals(eventHeap_init(Len(lines) * HEAP_FACTOR), 0, procs)
  IN Enter(procs, qq, heap, Len(lines) - Len(heap.heapArray), "loop")

\* run_scheduler up to its main loop: load the table, push the arrivals
RunInit(lines, qq) ==
  LET procs == read_input_file(lines)
      heap == PushArrivals(eventHeap_init(Len(lines) * HEAP_FACTOR), 0, procs)
  IN Enter(procs, qq, heap, Len(lines) - Len(heap.heapArray), "loop")

----------------------------------------------------------------------------
(* The inputs explored *)

\* the tokens of a process line after its id and arrival time
OneBurst == {<<c, -1>> : c \in 0..MaxCpu}

OneBurstPositive == {<<c, -1>> : c \in 1..MaxCpu}

\* one CPU burst and a trailing I/O burst before the end marker
TrailingIo == {<<c, io, -1>> : c \in 0..MaxCpu, io \in 1..MaxIo}

TwoBursts == {<<c1, io, c2, -1>> : c1 \in 0..MaxCpu, io \in 0..MaxIo, c2 \in 0..MaxCpu}

RichProc == [arrival : 0..MaxArrival, toks : OneBurst \cup TrailingIo \cup TwoBursts]

SimpleProc == [arrival : 0..MaxArrival, toks : OneBurst]

PositiveProc == [arrival : 0..MaxArrival, toks : OneBurstPositive]

IdSchemes == {"asc", "desc", "same"}

ExternalId(scheme, i, n) ==
  IF scheme = "asc" THEN i ELSE IF scheme = "desc" THEN n + 1 - i ELSE 1

MakeLines(choice, scheme) ==
  [i \in 1..Len(choice) |->
     [pid |-> ExternalId(scheme, i, Len(choice)),
      arrival |-> choice[i].arrival, toks |-> choice[i].toks]]

Quanta == (1..MaxQuantum) \cup {FCFS_QUANTUM}

\* one process, or a process with I/O beside a single-burst one
SoloInputs ==
  {[lines |-> MakeLines(<<p>>, "asc"), q |-> qq] : p \in RichProc, qq \in Quanta}

PairInputs ==
  {[lines |-> MakeLines(<<p1, p2>>, s), q |-> qq] :
     p1 \in RichProc, p2 \in SimpleProc, s \in IdSchemes, qq \in Quanta}

\* three single-burst processes competing for the CPU
TrioInputs ==
  {[lines |-> MakeLines(<<p1, p2, p3>>, s), q |-> qq] :
     p1 \in PositiveProc, p2 \in PositiveProc, p3 \in PositiveProc,
     s \in IdSchemes, qq \in Quanta}

\* two processes with one long CPU burst each under Round Robin: enough
\* re-enqueues for the ready queue's rear index to wrap around
LongInputs ==
  {[lines |-> <<[pid |-> 1, arrival |-> 0, toks |-> <<c1, -1>>],
                [pid |-> 2, arrival |-> a2, toks |-> <<c2, -1>>]>>, q |-> qq] :
     c1 \in {4, 7, 10}, c2 \in {4, 7, 10}, a2 \in 0..MaxArrival, qq \in {1, 2, 3}}

\* the two single-process walkthroughs: arrival 5 with a burst of 2, and
\* arrival 0 with a burst of 5, under small quanta and those of main
ScenarioInputs ==
  {[lines |-> <<[pid |-> 1, arrival |-> ac[1], toks |-> <<ac[2], -1>>]>>, q |-> qq] :
     ac \in {<<5, 2>>, <<0, 5>>},
     qq \in {1, 2, 3, RR_QUANTUM_B, RR_QUANTUM_A, FCFS_QUANTUM}}

Inputs ==
  SoloInputs \cup PairInputs \cup TrioInputs \cup LongInputs \cup ScenarioInputs

\* before run_scheduler is called: no table, nothing allocated
Init ==
  /\ g_processes = <<>>
  /\ g_numProcs = 0
  /\ q = 0
  /\ eventQ = eventHeap_init(0)
  /\ readyQ = RQ_init(0)
  /\ current_time = 0
  /\ cpu_idle_time = 0
  /\ cpu_busy_until = 0
  /\ running_pid = -1
  /\ running_end_time = 0
  /\ finished_count = 0
  /\ evt = NoEvent
  /\ pc = "start"
  /\ records = <<>>
  /\ timeline = <<>>
  /\ aggregate = NoAggregate
  /\ enq_stamp = <<>>
  /\ enq_count = 0
  /\ input_file = <<>>
  /\ main_call = 0
  /\ overflows = 0
  /\ wait_log = <<>>
  /\ handled = <<>>
  /\ foodep = <<>>
  /\ done_txt = <<>>
  /\ rb = <<>>
  /\ rb_out = <<>>

\* a call of run_scheduler on some input file with some quantum
Start ==
  /\ pc = "start"
  /\ \E inp \in Inputs : input_file' = inp.lines /\ RunInit(inp.lines, inp.q)
  /\ main_call' = 0

----------------------------------------------------------------------------
(* The main loop of run_scheduler, one action per event kind *)

Cur ==
  [procs |-> g_processes, eventQ |-> eventQ, readyQ |-> readyQ,
   cpu_idle_time |-> cpu_idle_time, cpu_busy_until |-> cpu_busy_until,
   running_pid |-> running_pid, running_end_time |-> running_end_time,
   finished_count |-> finished_count, records |-> records,
   timeline |-> timeline, enq_stamp |-> enq_stamp, enq_count |-> enq_count,
   overflows |-> overflows, wait_log |-> wait_log]

Commit(S) ==
  /\ g_processes' = S.procs
  /\ eventQ' = S.eventQ
  /\ readyQ' = S.readyQ
  /\ cpu_idle_time' = S.cpu_idle_time
  /\ cpu_busy_until' = S.cpu_busy_until
  /\ running_pid' = S.running_pid
  /\ running_end_time' = S.running_end_time
  /\ finished_count' = S.finished_count
  /\ records' = S.records
  /\ timeline' = S.timeline
  /\ enq_stamp' = S.enq_stamp
  /\ enq_count' = S.enq_count
  /\ overflows' = S.overflows
  /\ wait_log' = S.wait_log

LoopCond == finished_count < g_numProcs /\ ~eventHeap_empty(eventQ)

Popped == eventHeap_pop(eventQ, g_processes)

AfterPop == [Cur EXCEPT !.eventQ = Popped.heap]

HandleArrive ==
  /\ pc = "loop" /\ LoopCond
  /\ Popped.top.type = EVT_ARRIVE
  /\ evt' = Popped.top
  /\ current_time' = Popped.top.time
  /\ Commit(OnArrive(AfterPop, Popped.top, Popped.top.time, q))
  /\ handled' = Append(handled, Popped.top)
  /\ UNCHANGED <<g_numProcs, q, pc, aggregate, input_file, main_call>>
  /\ UNCHANGED rebuildVars

HandleCpuComplete ==
  /\ pc = "loop" /\ LoopCond
  /\ Popped.top.type = EVT_CPU_COMPLETE
  /\ evt' = Popped.top
  /\ current_time' = Popped.top.time
  /\ Commit(OnCpuComplete(AfterPop, Popped.top, Popped.top.time, q))
  /\ handled' = Append(handled, Popped.top)
  /\ UNCHANGED <<g_numProcs, q, pc, aggregate, input_file, main_call>>
  /\ UNCHANGED rebuildVars

HandleCpuTimeout ==
  /\ pc = "loop" /\ LoopCond
  /\ Popped.top.type = EVT_CPU_TIMEOUT
  /\ evt' = Popped.top
  /\ current_time' = Popped.top.time
  /\ Commit(OnCpuTimeout(AfterPop, Popped.top, Popped.top.time, q))
  /\ handled' = Append(handled, Popped.top)
  /\ UNCHANGED <<g_numProcs, q, pc, aggregate, input_file, main_call>>
  /\ UNCHANGED rebuildVars

MaxFinish_Last(procs, i, acc) ==
  procs[Cardinality(DOMAIN procs) - 1].finish_time

RECURSIVE MaxFinish(_, _, _)
MaxFinish(procs, i, acc) ==
  IF i >= Cardinality(DOMAIN procs) THEN acc
  ELSE MaxFinish(procs, i + 1,
                 IF procs[i].finish_time > acc THEN procs[i].finish_time ELSE acc)

TotalWait_LastOnly(procs, i, acc) ==
  acc + procs[Cardinality(DOMAIN procs) - 1].wait_time

RECURSIVE TotalWait(_, _, _)
TotalWait(procs, i, acc) ==
  IF i >= Cardinality(DOMAIN procs) THEN acc
  ELSE TotalWait(procs, i + 1, acc + procs[i].wait_time)

\* the loop condition fails: aggregate and print
LoopExit ==
  /\ pc = "loop" /\ ~LoopCond
  /\ pc' = "done"
  /\ aggregate' = [simulation_end |-> MaxFinish(g_processes, 0, 0),
                   total_wait |-> TotalWait(g_processes, 0, 0),
                   total_idle |-> cpu_idle_time]
  /\ UNCHANGED <<g_processes, g_numProcs, q, eventQ, readyQ, current_time,
                 cpu_idle_time, cpu_busy_until, running_pid, running_end_time,
                 finished_count, evt, records, timeline, enq_stamp, enq_count,
                 input_file, main_call, overflows, wait_log, handled>>
  /\ UNCHANGED rebuildVars

Next == Start \/ HandleArrive \/ HandleCpuComplete \/ HandleCpuTimeout \/ LoopExit

Spec == Init /\ [][Next]_vars

----------------------------------------------------------------------------
(* main: the three runs over the same input file *)

\* a process with I/O between two bursts longer than the smaller quantum,
\* beside a single-burst process
MixedFiles ==
  {<<[pid |-> 1, arrival |-> 0, toks |-> <<7, io, c2, -1>>],
     [pid |-> 2, arrival |-> a2, toks |-> <<c, -1>>]>> :
     io \in {1, 3}, c2 \in {6, 12}, a2 \in 0..MaxArrival, c \in {4, 10}}

MainFiles ==
  {inp.lines : inp \in SoloInputs \cup LongInputs \cup ScenarioInputs}
    \cup {MakeLines(<<p1, p2>>, "asc") : p1 \in RichProc, p2 \in SimpleProc}
    \cup MixedFiles

MainQuantum(call) ==
  IF call = 1 THEN FCFS_QUANTUM
  ELSE IF call = 2 THEN RR_QUANTUM_A ELSE RR_QUANTUM_B

\* main up to the loop of its first run_scheduler call
MainStart ==
  /\ pc = "start"
  /\ \E lines \in MainFiles :
       /\ Len(lines) > 0
       /\ input_file' = lines
       /\ RunInit(lines, MainQuantum(1))
  /\ main_call' = 1

\* a run has returned: main calls run_scheduler with the next quantum
MainNextRun ==
  /\ pc = "done"
  /\ main_call \in {1, 2}
  /\ main_call' = main_call + 1
  /\ RunInit(input_file, MainQuantum(main_call + 1))
  /\ UNCHANGED input_file

MainNext ==
  \/ MainStart \/ HandleArrive \/ HandleCpuComplete \/ HandleCpuTimeout
  \/ LoopExit \/ MainNextRun

MainSpec == Init /\ [][MainNext]_vars

----------------------------------------------------------------------------
(* The event heap on its own: any pushes and pops within capacity *)

HeapEvents ==
  [time : {0, 1}, type : {EVT_ARRIVE, EVT_CPU_COMPLETE, EVT_CPU_TIMEOUT}, pid : {0, 1}]

HeapTables ==
  LET p == [arrival |-> 0, toks |-> <<0, -1>>]
  IN {MakeLines(<<p, p>>, "desc"), MakeLines(<<p, p>>, "same"), MakeLines(<<p>>, "asc")}

\* two processes whose ids are in the opposite order of their indices, or
\* equal, or one process and so a heap small enough to be filled
HeapStart ==
  /\ pc = "start"
  /\ \E lines \in HeapTables :
       /\ input_file' = lines
       /\ Enter(read_input_file(lines), 1,
                eventHeap_init(Len(lines) * HEAP_FACTOR), 0, "heap")
  /\ main_call' = 0

HeapFrame ==
  UNCHANGED <<g_processes, g_numProcs, q, readyQ, current_time, cpu_idle_time,
              cpu_busy_until, running_pid, running_end_time, finished_count,
              pc, records, timeline, aggregate, enq_stamp, enq_count,
              input_file, main_call, wait_log, handled, foodep, done_txt,
              rb, rb_out>>

\* evt holds what the latest call popped, NoEvent after a push
HeapPush ==
  /\ pc = "heap"
  /\ Len(eventQ.heapArray) < MaxHeapSize
  /\ overflows < MaxReports
  /\ \E e \in HeapEvents :
       /\ e.pid < g_numProcs
       /\ eventQ' = eventHeap_push(eventQ, e, g_processes)
  /\ overflows' = IF eventHeap_full(eventQ) THEN overflows + 1 ELSE overflows
  /\ evt' = NoEvent
  /\ HeapFrame

HeapPop ==
  /\ pc = "heap"
  /\ ~eventHeap_empty(eventQ)
  /\ evt' = eventHeap_pop(eventQ, g_processes).top
  /\ eventQ' = eventHeap_pop(eventQ, g_processes).heap
  /\ UNCHANGED overflows
  /\ HeapFrame

HeapNext == HeapStart \/ HeapPush \/ HeapPop

HeapSpec == Init /\ [][HeapNext]_vars

----------------------------------------------------------------------------
(* rebuild.c: one process per foodule, forked depth-first, sharing done.txt *)

\* everything of the scheduler but pc, which the rebuild processes leave alone
schedulerVars ==
  <<g_processes, g_numProcs, q, eventQ, readyQ, current_time, cpu_idle_time,
    cpu_busy_until, running_pid, running_end_time, finished_count, evt,
    records, timeline, aggregate, enq_stamp, enq_count, input_file,
    main_call, overflows, wait_log, handled>>

\* done.txt is a line of n characters; visited[1..n] holds them as integers
read_visited_file(file, n) ==
  [i \in 1..n |-> IF file[i] = "0" THEN 0 ELSE 1]

write_visited_file(visited, n) ==
  [i \in 1..n |-> IF visited[i] = 0 THEN "0" ELSE "1"]

\* the tokens after "u:" in foodep.txt, none when u has no line
read_dependencies_for_u(dep, u) ==
  IF u \in DOMAIN dep.deps THEN dep.deps[u] ELSE <<>>

NeedsRebuild_Always(visited, v) == TRUE

\* the test that decides whether a dependency gets a child process
NeedsRebuild(visited, v) == visited[v] = 0

MarkVisited_NoReread(file, visited, u, n) == [visited EXCEPT ![u] = 1]

\* re-read done.txt and set the bit of u
MarkVisited(file, visited, u, n) == [read_visited_file(file, n) EXCEPT ![u] = 1]

\* a process at the top of main, as exec or the shell leaves it
NewRebuild(u, argc, parent, n) ==
  [u |-> u, argc |-> argc, parent |-> parent,
   visited |-> [i \in 1..n |-> 0], deps |-> <<>>, i |-> 0,
   st |-> "entry", child |-> 0]

\* the members of a set of numbers as a sequence, ascending or descending
RECURSIVE Listed(_, _)
Listed(S, order) ==
  IF S = {} THEN <<>>
  ELSE LET x == IF order = "asc"
                THEN CHOOSE y \in S : \A z \in S : y <= z
                ELSE CHOOSE y \in S : \A z \in S : y >= z
       IN <<x>> \o Listed(S \ {x}, order)

\* acyclic dependency files over MaxFoodules foodules: every foodule depends
\* on some higher-numbered ones, listed in either order
DepFiles ==
  {[n |-> MaxFoodules,
    deps |-> [u \in 1..MaxFoodules |->
                Listed({v \in 1..MaxFoodules : <<u, v>> \in E}, order)]] :
     E \in SUBSET {uv \in (1..MaxFoodules) \X (1..MaxFoodules) : uv[1] < uv[2]},
     order \in {"asc", "desc"}}

\* "./rebuild u" typed at the shell, done.txt left over from an earlier build
RebuildStart ==
  /\ pc = "start"
  /\ pc' = "rebuild"
  /\ \E dep \in DepFiles, u \in 1..MaxFoodules :
       /\ foodep' = dep
       /\ done_txt' = [i \in 1..dep.n |-> "1"]
       /\ rb' = <<NewRebuild(u, 2, 0, dep.n)>>
  /\ rb_out' = <<>>
  /\ UNCHANGED schedulerVars

\* lines 165-175: the root call resets done.txt; read the dependencies of u
RebuildEntry(p) ==
  /\ pc = "rebuild" /\ rb[p].st = "entry"
  /\ done_txt' = IF rb[p].argc = 2
                 THEN write_visited_file(rb[p].visited, foodep.n)
                 ELSE done_txt
  /\ rb' = [rb EXCEPT ![p].deps = read_dependencies_for_u(foodep, rb[p].u),
                      ![p].st = "loop"]
  /\ UNCHANGED <<pc, foodep, rb_out, schedulerVars>>

\* one pass of the loop at lines 178-202 up to waitpid: re-read done.txt and
\* fork a child that execs "./rebuild v child" when v is not yet visited
RebuildDependency(p) ==
  /\ pc = "rebuild" /\ rb[p].st = "loop"
  /\ rb[p].i < Len(rb[p].deps)
  /\ LET v == rb[p].deps[rb[p].i + 1]
         visited == read_visited_file(done_txt, foodep.n)
     IN IF NeedsRebuild(visited, v)
        THEN rb' = Append([rb EXCEPT ![p].visited = visited,
                                     ![p].st = "wait",
                                     ![p].child = Len(rb) + 1],
                          NewRebuild(v, 3, p, foodep.n))
        ELSE rb' = [rb EXCEPT ![p].visited = visited, ![p].i = @ + 1]
  /\ UNCHANGED <<pc, foodep, done_txt, rb_out, schedulerVars>>

\* waitpid returns once the child has exited
RebuildWaited(p) ==
  /\ pc = "rebuild" /\ rb[p].st = "wait"
  /\ rb[rb[p].child].st = "exited"
  /\ rb' = [rb EXCEPT ![p].st = "loop", ![p].i = @ + 1]
  /\ UNCHANGED <<pc, foodep, done_txt, rb_out, schedulerVars>>

\* lines 205-206: after the loop, read done.txt again and set the bit of u
RebuildMark(p) ==
  /\ pc = "rebuild" /\ rb[p].st = "loop"
  /\ rb[p].i >= Len(rb[p].deps)
  /\ rb' = [rb EXCEPT ![p].visited = MarkVisited(done_txt, rb[p].visited,
                                                 rb[p].u, foodep.n),
                      ![p].st = "marked"]
  /\ UNCHANGED <<pc, foodep, done_txt, rb_out, schedulerVars>>

\* lines 207-222: write done.txt, print the "rebuilt" line and exit
RebuildReport(p) ==
  /\ pc = "rebuild" /\ rb[p].st = "marked"
  /\ done_txt' = write_visited_file(rb[p].visited, foodep.n)
  /\ rb_out' = Append(rb_out, rb[p].u)
  /\ rb' = [rb EXCEPT ![p].st = "exited"]
  /\ UNCHANGED <<pc, foodep, schedulerVars>>

RebuildNext ==
  \/ RebuildStart
  \/ \E p \in 1..Len(rb) :
       \/ RebuildEntry(p) \/ RebuildDependency(p) \/ RebuildWaited(p)
       \/ RebuildMark(p) \/ RebuildReport(p)

\* the kernel runs every process that is not blocked
RebuildSpec == Init /\ [][RebuildNext]_vars /\ WF_vars(RebuildNext)

----------------------------------------------------------------------------
(* Derived views of the state used by the properties *)

Pids == 0..(g_numProcs - 1)

\* positions in the heap of the events of process i
PendingOf(i) == {k \in 1..Len(eventQ.heapArray) : eventQ.heapArray[k].pid = i}

\* how many times process i is in the ready queue
ReadyCount(i) ==
  Cardinality({k \in 1..readyQ.count : RQ_contents(readyQ)[k] = i})

\* process i has printed its completion record
Finished(i) == \E k \in 1..Len(records) : records[k].pid = i

Waiting(i) ==
  /\ Cardinality(PendingOf(i)) = 1
  /\ \A k \in PendingOf(i) : eventQ.heapArray[k].type = EVT_ARRIVE
  /\ ReadyCount(i) = 0 /\ running_pid # i /\ ~Finished(i)

Ready(i) ==
  /\ ReadyCount(i) = 1
  /\ PendingOf(i) = {} /\ running_pid # i /\ ~Finished(i)

Running(i) ==
  /\ running_pid = i
  /\ Cardinality(PendingOf(i)) = 1
  /\ \A k \in PendingOf(i) :
       eventQ.heapArray[k].type \in {EVT_CPU_COMPLETE, EVT_CPU_TIMEOUT}
  /\ ReadyCount(i) = 0 /\ ~Finished(i)

Exited(i) ==
  /\ Finished(i)
  /\ Cardinality({k \in 1..Len(records) : records[k].pid = i}) = 1
  /\ PendingOf(i) = {} /\ ReadyCount(i) = 0 /\ running_pid # i

\* C1: at most one process runs, and every process is in exactly one of the
\* states waiting (not yet arrived or in I/O: one pending ARRIVE event, not
\* queued), ready (queued once, no event), running (one pending CPU_COMPLETE
\* or CPU_TIMEOUT event) and finished (no event, not queued).
C1_OneStatePerProcess ==
  pc \in {"loop", "done"} =>
    /\ running_pid \in {-1} \cup Pids
    /\ \A i \in Pids :
         Cardinality({st \in {"waiting", "ready", "running", "finished"} :
                        \/ st = "waiting" /\ Waiting(i)
                        \/ st = "ready" /\ Ready(i)
                        \/ st = "running" /\ Running(i)
                        \/ st = "finished" /\ Exited(i)}) = 1

\* all four states are occupied at once, one of the waiting processes in I/O
C1_Witness ==
  /\ pc = "loop"
  /\ \E i, j, k \in Pids : Running(i) /\ Ready(j) /\ Exited(k)

\* the order the specification gives: time, then kind, then external id
SpecBefore(a, b) ==
  \/ a.time < b.time
  \/ a.time = b.time /\ a.type < b.type
  \/ a.time = b.time /\ a.type = b.type
       /\ g_processes[a.pid].id < g_processes[b.pid].id

Occurrences(e, arr) == Cardinality({k \in 1..Len(arr) : arr[k] = e})

\* C2: a pop returns an event that no event of the heap precedes in the order
\* (time, kind, external id) and removes exactly that one event, leaving the
\* others unchanged as a multiset.
C2_PopReturnsMinimum ==
  [][Len(eventQ'.heapArray) < Len(eventQ.heapArray) =>
       /\ \E k \in 1..Len(eventQ.heapArray) : eventQ.heapArray[k] = evt'
       /\ \A k \in 1..Len(eventQ.heapArray) : ~SpecBefore(eventQ.heapArray[k], evt')
       /\ \A e \in HeapEvents :
            Occurrences(e, eventQ'.heapArray) + (IF e = evt' THEN 1 ELSE 0)
              = Occurrences(e, eventQ.heapArray)]_vars

\* a pop decided by the external id alone, the smaller id at the larger index
C2_Witness ==
  /\ pc = "heap"
  /\ evt # NoEvent
  /\ \E k \in 1..Len(eventQ.heapArray) :
       /\ eventQ.heapArray[k].time = evt.time
       /\ eventQ.heapArray[k].type = evt.type
       /\ eventQ.heapArray[k].pid < evt.pid
       /\ g_processes[eventQ.heapArray[k].pid].id > g_processes[evt.pid].id
  /\ Len(eventQ.heapArray) = MaxHeapSize - 1

\* C3: between event handlers the event queue is empty exactly when every
\* process has finished, so at loop exit both termination conditions hold.
C3_ExitConditionsAgree ==
  /\ pc = "loop" => (eventHeap_empty(eventQ) <=> finished_count = g_numProcs)
  /\ pc = "done" => (eventHeap_empty(eventQ) /\ finished_count = g_numProcs)

\* a run of several processes, one of them with I/O, has left the loop
C3_Witness ==
  /\ pc = "done"
  /\ g_numProcs >= 2
  /\ \E i \in Pids : g_processes[i].num_bursts >= 2
  /\ finished_count = g_numProcs

\* C4: every finished process has finish_time >= arrival_time and a
\* turnaround of at least total_cpu_io, the loader's sum of all its CPU and
\* I/O burst durations.
C4_TurnaroundCoversService ==
  \A k \in 1..Len(records) :
    LET p == g_processes[records[k].pid] IN
    /\ p.finish_time >= p.arrival_time
    /\ records[k].tat = p.finish_time - p.arrival_time
    /\ records[k].tat >= p.total_cpu_io

\* every CPU burst of every process fits in the quantum
QuantumCoversBursts ==
  \A i \in Pids : \A k \in 1..Len(g_processes[i].cpu_bursts) :
    q >= g_processes[i].cpu_bursts[k]

PendingArrivals ==
  Cardinality({k \in 1..Len(eventQ.heapArray) :
                 eventQ.heapArray[k].type = EVT_ARRIVE})

\* ARRIVE events created so far: one per process and one per I/O started
RECURSIVE ArrivalsCreated(_)
ArrivalsCreated(i) ==
  IF i >= g_numProcs THEN 0
  ELSE g_processes[i].current_burst + 1 + ArrivalsCreated(i + 1)

\* C5: when the quantum is at least every CPU burst, no CPU_TIMEOUT event is
\* ever queued or handled, every dispatch runs the whole remaining burst, and
\* every enqueue comes from an ARRIVE event (none from preemption).
C5_NoTimeoutUnderLargeQuantum ==
  (pc \in {"loop", "done"} /\ QuantumCoversBursts) =>
    /\ \A k \in 1..Len(eventQ.heapArray) : eventQ.heapArray[k].type # EVT_CPU_TIMEOUT
    /\ evt.type # EVT_CPU_TIMEOUT
    /\ \A k \in 1..Len(timeline) :
         \E b \in 1..Len(g_processes[timeline[k].pid].cpu_bursts) :
           timeline[k].slice = g_processes[timeline[k].pid].cpu_bursts[b]
    /\ enq_count = ArrivalsCreated(0) - PendingArrivals

\* a process whose remaining burst equals the quantum is on the CPU
C5_Witness ==
  /\ pc = "loop"
  /\ QuantumCoversBursts
  /\ running_pid >= 0
  /\ g_processes[running_pid].remaining_cpu = q
  /\ \E k \in PendingOf(running_pid) : eventQ.heapArray[k].type = EVT_CPU_COMPLETE

\* C6: the ready queue holds its processes in the order they were enqueued,
\* and the process on the CPU was enqueued before every process still queued:
\* of two processes queued together the earlier one is dispatched first.
C6_ReadyQueueIsFifo ==
  pc \in {"loop", "done"} =>
    /\ \A j, k \in 1..readyQ.count :
         j < k => enq_stamp[RQ_contents(readyQ)[j]] < enq_stamp[RQ_contents(readyQ)[k]]
    /\ running_pid >= 0 =>
         \A k \in 1..readyQ.count :
           enq_stamp[running_pid] < enq_stamp[RQ_contents(readyQ)[k]]

\* the rear index has wrapped around and a re-enqueued process waits again
C6_Witness ==
  /\ pc = "loop"
  /\ enq_count > readyQ.capacity
  /\ readyQ.rear = (enq_count - 1) % readyQ.capacity
  /\ readyQ.count > 0
  /\ running_pid >= 0

\* P1 arrives at 0 with one CPU burst of 10, P2 at 1 with one of 4, quantum 3
IsScenarioRR3 ==
  /\ pc \in {"loop", "done"}
  /\ g_numProcs = 2 /\ q = 3
  /\ g_processes[0].arrival_time = 0 /\ g_processes[0].cpu_bursts = <<10>>
  /\ g_processes[0].io_bursts = <<>>
  /\ g_processes[1].arrival_time = 1 /\ g_processes[1].cpu_bursts = <<4>>
  /\ g_processes[1].io_bursts = <<>>

Ran(pid, from, to) == [pid |-> pid, start |-> from, slice |-> to - from]

\* C7 as stated: P1 [0,3), P2 [3,6), P1 [6,9), P2 [9,10) and finishes,
\* P1 [10,12) and finishes.
C7_TimelineAsStated ==
  (IsScenarioRR3 /\ pc = "done") =>
    /\ timeline = <<Ran(0, 0, 3), Ran(1, 3, 6), Ran(0, 6, 9), Ran(1, 9, 10),
                    Ran(0, 10, 12)>>
    /\ g_processes[1].finish_time = 10
    /\ g_processes[0].finish_time = 12

\* C7 amended: P1 [0,3), P2 [3,6), P1 [6,9), P2 [9,10) and finishes at 10,
\* then P1 [10,13) and [13,14), finishing at 14 (its burst of 10 needs four
\* slices of at most 3).
C7_TimelineOfCode ==
  (IsScenarioRR3 /\ pc = "done") =>
    /\ timeline = <<Ran(0, 0, 3), Ran(1, 3, 6), Ran(0, 6, 9), Ran(1, 9, 10),
                    Ran(0, 10, 13), Ran(0, 13, 14)>>
    /\ g_processes[1].finish_time = 10
    /\ g_processes[0].finish_time = 14
    /\ records = <<[time |-> 10, pid |-> 1, tat |-> 9, wtime |-> 5],
                   [time |-> 14, pid |-> 0, tat |-> 14, wtime |-> 4]>>

C7_Witness == IsScenarioRR3 /\ pc = "done" /\ Len(records) = 2

\* events a CPU burst with r units left still has to raise under quantum q
SlicesLeft(r) == IF r = 0 THEN 1 ELSE (r + q - 1) \div q

\* events of the bursts of process i after burst k: an ARRIVE and the slices
RECURSIVE LaterBursts(_, _)
LaterBursts(i, k) ==
  IF k >= g_processes[i].num_bursts THEN 0
  ELSE 1 + SlicesLeft(ArrGet(g_processes[i].cpu_bursts, k)) + LaterBursts(i, k + 1)

EventsLeft(i) ==
  IF Finished(i) THEN 0
  ELSE (IF Waiting(i) THEN 1 ELSE 0)
       + SlicesLeft(g_processes[i].remaining_cpu)
       + LaterBursts(i, g_processes[i].current_burst + 1)

RECURSIVE SumEventsLeft(_)
SumEventsLeft(i) ==
  IF i >= g_numProcs THEN 0 ELSE EventsLeft(i) + SumEventsLeft(i + 1)

\* iterations of the main loop still to come, the exiting test included
WorkLeft == (IF pc = "loop" THEN 1 ELSE 0) + SumEventsLeft(0)

\* C9: every run reaches the end of the loop with every process finished:
\* each pass of the main loop handles one event and lowers the finite number
\* of events still to come by one, the loop is left only when none is left.
C9_RunTerminates ==
  /\ [](pc = "loop" => /\ WorkLeft >= 1
                       /\ (LoopCond <=> WorkLeft > 1)
                       /\ (LoopCond => Popped.top.pid \in Pids))
  /\ [][pc = "loop" => WorkLeft' = WorkLeft - 1]_vars
  /\ [](pc = "done" => (WorkLeft = 0 /\ finished_count = g_numProcs))

\* a run with preemption and I/O has ended with every process finished
C9_Witness ==
  /\ pc = "done"
  /\ finished_count = g_numProcs
  /\ \E i \in Pids : g_processes[i].num_bursts >= 2
  /\ \E k \in 1..Len(timeline) :
       timeline[k].slice = q /\ \E j \in 1..Len(timeline) :
         j > k /\ timeline[j].pid = timeline[k].pid

\* C10: the clock is never negative and never ahead of a queued event (so no
\* event was pushed into the past); a loop iteration sets it to the time of
\* the event it pops, the root of the heap, never backwards, and no other
\* step changes it.
C10_ClockMonotone ==
  /\ [](pc \in {"loop", "done"} =>
          /\ current_time >= 0
          /\ \A k \in 1..Len(eventQ.heapArray) :
               eventQ.heapArray[k].time >= current_time)
  /\ [][pc = "loop" =>
          IF pc' = "loop"
          THEN /\ ~eventHeap_empty(eventQ)
               /\ evt' = eventQ.heapArray[1]
               /\ current_time' = evt'.time
               /\ current_time' >= current_time
          ELSE current_time' = current_time]_vars

\* the clock has advanced to an I/O return pushed by a handler
C10_Witness ==
  /\ pc = "loop"
  /\ current_time > 0
  /\ evt.type = EVT_ARRIVE
  /\ evt.pid >= 0
  /\ g_processes[evt.pid].current_burst >= 1
  /\ current_time > g_processes[evt.pid].arrival_time

----------------------------------------------------------------------------
(* Scenarios and properties of whole runs *)

\* the run of a file with the single line "1 a c -1"
IsSoloRun(a, c) ==
  /\ pc \in {"loop", "done"}
  /\ input_file = <<[pid |-> 1, arrival |-> a, toks |-> <<c, -1>>]>>

\* C11: one process arriving at 5 with a CPU burst of 2, quantum at least 2:
\* the run ends with idle time 5 (the gap before the only dispatch, at 5),
\* makespan 7 and busy time 7 - 5 = 2.
C11_IdleBeforeFirstDispatch ==
  (IsSoloRun(5, 2) /\ q >= 2 /\ pc = "done") =>
    /\ cpu_idle_time = 5
    /\ aggregate.total_idle = 5
    /\ aggregate.simulation_end = 7
    /\ aggregate.simulation_end - aggregate.total_idle = 2
    /\ timeline = <<Ran(0, 5, 7)>>

C11_Witness ==
  /\ IsSoloRun(5, 2) /\ q = 2 /\ pc = "done"
  /\ main_call = 0
  /\ Len(records) = 1

\* C12: one process arriving at 0 with a single CPU burst of 5 under quantum
\* 10: exactly one completion record, at time 5 with turnaround 5 and wait 0;
\* total wait 0, makespan 5, idle time 0 (busy time = makespan).
C12_SingleBurstScenario ==
  (IsSoloRun(0, 5) /\ q = RR_QUANTUM_A /\ pc = "done") =>
    /\ records = <<[time |-> 5, pid |-> 0, tat |-> 5, wtime |-> 0]>>
    /\ g_processes[0].finish_time = 5
    /\ g_processes[0].wait_time = 0
    /\ aggregate = [simulation_end |-> 5, total_wait |-> 0, total_idle |-> 0]
    /\ aggregate.simulation_end - aggregate.total_idle = aggregate.simulation_end

C12_Witness ==
  /\ IsSoloRun(0, 5) /\ q = RR_QUANTUM_A /\ pc = "done"
  /\ main_call = 0
  /\ finished_count = 1

\* the first token of a process line, 0 when the line has no burst
FirstBurst(line) == IF line.toks[1] = -1 THEN 0 ELSE line.toks[1]

\* run_scheduler has been entered and its loop has not handled an event yet
AtRunStart == pc = "loop" /\ evt = NoEvent

\* C13: each of the three runs of main starts from the state the input file
\* alone determines: every process at burst 0 with its first CPU burst
\* remaining and zero wait and finish time; an empty ready queue, clock, idle
\* time and finished count at zero, no process on the CPU, and an event
\* queue holding nothing but one ARRIVE per process at its arrival time.
C13_FreshRuns ==
  (AtRunStart /\ main_call \in 1..3) =>
    /\ q = MainQuantum(main_call)
    /\ g_numProcs = Len(input_file)
    /\ DOMAIN g_processes = 0..(Len(input_file) - 1)
    /\ \A i \in Pids :
         /\ g_processes[i].id = input_file[i + 1].pid
         /\ g_processes[i].arrival_time = input_file[i + 1].arrival
         /\ g_processes[i].current_burst = 0
         /\ g_processes[i].remaining_cpu = FirstBurst(input_file[i + 1])
         /\ g_processes[i].wait_time = 0
         /\ g_processes[i].finish_time = 0
         /\ g_processes[i].last_ready_time = 0
         /\ g_processes[i].start_run_time = 0
         /\ Cardinality(PendingOf(i)) = 1
         /\ \A k \in PendingOf(i) :
              eventQ.heapArray[k] = [time |-> input_file[i + 1].arrival,
                                     type |-> EVT_ARRIVE, pid |-> i]
    /\ Len(eventQ.heapArray) = g_numProcs
    /\ readyQ.count = 0 /\ readyQ.front = 0 /\ readyQ.rear = -1
    /\ current_time = 0 /\ cpu_idle_time = 0 /\ cpu_busy_until = 0
    /\ running_pid = -1 /\ finished_count = 0
    /\ records = <<>> /\ timeline = <<>>

\* the third run starts on a file whose processes the first two runs left
\* finished, one of them after I/O and preemption under quantum 10
C13_Witness ==
  /\ AtRunStart /\ main_call = 3
  /\ g_numProcs = 2
  /\ \E i \in Pids : /\ Len(input_file[i + 1].toks) > 2
                     /\ input_file[i + 1].toks[3] > RR_QUANTUM_A

\* C14: a capacity overflow is fatal: once eventHeap_push or RQ_enqueue has
\* reported an overflow the run has been aborted, it does not go on with the
\* event or ready entry dropped.
C14_OverflowIsFatal == overflows > 0 => pc = "aborted"

RECURSIVE SumSeq(_)
SumSeq(sq) == IF sq = <<>> THEN 0 ELSE Head(sq) + SumSeq(Tail(sq))

\* C15: the total wait handed to the aggregator at the end of a run equals
\* the sum of the waits added dispatch by dispatch (clock minus the
\* dispatched process's last_ready_time), one per dispatch, none negative;
\* during the run the wait_time fields add up to the waits logged so far.
C15_WaitCrossCheck ==
  /\ pc \in {"loop", "done"} =>
       /\ Len(wait_log) = Len(timeline)
       /\ \A k \in 1..Len(wait_log) : wait_log[k] >= 0
       /\ SumSeq([i \in 1..g_numProcs |-> g_processes[i - 1].wait_time])
            = SumSeq(wait_log)
  /\ pc = "done" => aggregate.total_wait = SumSeq(wait_log)

\* a run has ended in which two processes waited and one of them twice
C15_Witness ==
  /\ pc = "done"
  /\ aggregate.total_wait > 0
  /\ \E i, j \in Pids :
       /\ i # j
       /\ g_processes[i].wait_time > 0 /\ g_processes[j].wait_time > 0
       /\ \E k, m \in 1..Len(timeline) :
            /\ k < m /\ timeline[k].pid = i /\ timeline[m].pid = i
            /\ wait_log[k] > 0 /\ wait_log[m] > 0

\* the handler of a CPU_COMPLETE or CPU_TIMEOUT event runs in this step
CpuEventStep ==
  /\ pc = "loop" /\ pc' = "loop"
  /\ evt'.type \in {EVT_CPU_COMPLETE, EVT_CPU_TIMEOUT}

\* C16: when a CPU_COMPLETE or CPU_TIMEOUT event is handled, the time the
\* process ran, clock minus start_run_time, is the slice of the latest
\* dispatch, which dispatched this process, and is min(remaining_cpu,
\* quantum); so it is not negative and not more than remaining_cpu (no clamp
\* acts), it leaves exactly 0 at a CPU_COMPLETE and more than 0 at a
\* CPU_TIMEOUT, where the process keeps its burst with that remainder.
C16_ExactSliceAccounting ==
  [][CpuEventStep =>
       LET pid == evt'.pid
           p == g_processes[pid]
           used == current_time' - p.start_run_time
           last == timeline[Len(timeline)]
       IN /\ Len(timeline) >= 1
          /\ running_pid = pid
          /\ last.pid = pid /\ last.start = p.start_run_time
          /\ used = last.slice
          /\ used = IF p.remaining_cpu < q THEN p.remaining_cpu ELSE q
          /\ used >= 0
          /\ p.remaining_cpu - used >= 0
          /\ evt'.type = EVT_CPU_COMPLETE => p.remaining_cpu - used = 0
          /\ evt'.type = EVT_CPU_TIMEOUT =>
               /\ p.remaining_cpu - used > 0
               /\ g_processes'[pid].remaining_cpu = p.remaining_cpu - used
               /\ g_processes'[pid].current_burst = p.current_burst]_vars

\* a timeout has just been handled and left exactly one quantum of the burst
C16_Witness ==
  /\ pc = "loop"
  /\ evt.type = EVT_CPU_TIMEOUT
  /\ g_processes[evt.pid].remaining_cpu = q
  /\ Len(timeline) >= 3

\* CPU time the dispatches so far gave to process i
RECURSIVE CpuGiven(_, _)
CpuGiven(i, k) ==
  IF k = 0 THEN 0
  ELSE (IF timeline[k].pid = i THEN timeline[k].slice ELSE 0) + CpuGiven(i, k - 1)

\* CPU time process i needed for its bursts before burst cb (0-based)
RECURSIVE BurstsBefore(_, _)
BurstsBefore(i, cb) ==
  IF cb = 0 THEN 0
  ELSE ArrGet(g_processes[i].cpu_bursts, cb - 1) + BurstsBefore(i, cb - 1)

\* the handler of this step ends CPU burst k of process pid, not its last
EndsBurst(pid, k) ==
  /\ CpuEventStep
  /\ evt'.pid = pid
  /\ g_processes[pid].current_burst = k
  /\ k + 1 < g_processes[pid].num_bursts
  /\ g_processes[pid].remaining_cpu = current_time' - g_processes[pid].start_run_time

\* C17: when a process ends CPU burst k at time t and k is not its last
\* burst, it moves to burst k+1 with that burst's full duration remaining and
\* its only event is one ARRIVE at t + io_bursts[k]; it is neither queued nor
\* running while that event is pending, it enters the ready queue only when
\* one of its own events is handled, and the CPU time it was given always
\* equals its earlier bursts in full plus the part of the current one it has
\* used, so that it has finished only with every burst run in full.
C17_IoReturn ==
  /\ [](pc \in {"loop", "done"} =>
          \A i \in Pids :
            /\ (\E k \in PendingOf(i) : eventQ.heapArray[k].type = EVT_ARRIVE)
                 => (ReadyCount(i) = 0 /\ running_pid # i)
            /\ g_processes[i].current_burst < g_processes[i].num_bursts
            /\ CpuGiven(i, Len(timeline))
                 = BurstsBefore(i, g_processes[i].current_burst)
                   + ArrGet(g_processes[i].cpu_bursts, g_processes[i].current_burst)
                   - g_processes[i].remaining_cpu
                   + (IF running_pid = i THEN timeline[Len(timeline)].slice ELSE 0)
            /\ Finished(i) =>
                 /\ g_processes[i].current_burst = g_processes[i].num_bursts - 1
                 /\ CpuGiven(i, Len(timeline))
                      = SumSeq(g_processes[i].cpu_bursts))
  /\ [][\A pid \in Pids :
          /\ \A k \in 0..(g_processes[pid].num_bursts - 1) :
               EndsBurst(pid, k) =>
                 /\ g_processes'[pid].current_burst = k + 1
                 /\ g_processes'[pid].remaining_cpu = g_processes[pid].cpu_bursts[k + 2]
                 /\ Cardinality(PendingOf(pid)') = 1
                 /\ \A j \in PendingOf(pid)' :
                      eventQ'.heapArray[j] =
                        [time |-> current_time' + g_processes[pid].io_bursts[k + 1],
                         type |-> EVT_ARRIVE, pid |-> pid]
                 /\ ReadyCount(pid)' = 0
                 /\ running_pid' # pid
                 /\ ~Finished(pid)'
          /\ g_processes'[pid].current_burst \in
               {g_processes[pid].current_burst, g_processes[pid].current_burst + 1}
          /\ ReadyCount(pid)' > ReadyCount(pid) =>
               (evt'.pid = pid /\ evt'.type \in {EVT_ARRIVE, EVT_CPU_TIMEOUT})
       \/ pc # "loop"]_vars

\* a process is back on the CPU for its second burst after a positive I/O burst
C17_Witness ==
  /\ pc = "loop"
  /\ running_pid >= 0
  /\ g_processes[running_pid].current_burst = 1
  /\ g_processes[running_pid].io_bursts[1] > 0
  /\ g_processes[running_pid].cpu_bursts[2] > 0
  /\ g_numProcs = 2

\* the handler of a CPU_TIMEOUT event runs in this step
TimeoutStep ==
  /\ pc = "loop" /\ pc' = "loop"
  /\ evt'.type = EVT_CPU_TIMEOUT

\* what a CPU_TIMEOUT handled at the new clock value does to its process P
\* and to the queue: the quantum is taken off, P joins the tail at that time,
\* and the head of the queue, P itself if nobody else was ready, is running
TimeoutEffect ==
  LET P == evt'.pid
      old == RQ_contents(readyQ)
  IN /\ g_processes'[P].remaining_cpu = g_processes[P].remaining_cpu - q
     /\ g_processes'[P].remaining_cpu > 0
     /\ g_processes'[P].last_ready_time = current_time'
     /\ g_processes'[P].current_burst = g_processes[P].current_burst
     /\ enq_count' = enq_count + 1
     /\ enq_stamp'[P] = enq_count'
     /\ running_pid = P
     /\ IF old = <<>>
        THEN running_pid' = P /\ RQ_contents(readyQ)' = <<>>
        ELSE /\ running_pid' = Head(old)
             /\ RQ_contents(readyQ)' = Append(Tail(old), P)

\* the PCB of j after schedule_next dispatched it at time t
Dispatched(j, t) ==
  [g_processes[j] EXCEPT !.wait_time = @ + (t - g_processes[j].last_ready_time),
                         !.start_run_time = t]

\* C18 as stated: a CPU_TIMEOUT takes the quantum off P's remaining_cpu,
\* appends P to the ready queue at time t and runs the head of the queue, and
\* no field of any other process changes.
C18_TimeoutAsStated ==
  [][TimeoutStep =>
       /\ TimeoutEffect
       /\ \A j \in Pids \ {evt'.pid} : g_processes'[j] = g_processes[j]]_vars

\* C18 amended: as above, but the process the dispatcher runs has its
\* wait_time increased by t - last_ready_time and its start_run_time set to
\* t; every other process keeps all its fields, and P changes in nothing but
\* remaining_cpu and last_ready_time (and as dispatched, if it runs again).
C18_QuantumExpiry ==
  [][TimeoutStep =>
       LET P == evt'.pid
           t == current_time'
           requeued == [g_processes[P] EXCEPT !.remaining_cpu = @ - q,
                                              !.last_ready_time = t]
       IN /\ TimeoutEffect
          /\ \A j \in Pids \ {P} :
               g_processes'[j] = IF j = running_pid' THEN Dispatched(j, t)
                                 ELSE g_processes[j]
          /\ g_processes'[P] =
               IF running_pid' = P
               THEN [requeued EXCEPT !.start_run_time = t]
               ELSE requeued]_vars

\* a timeout has put its process behind another waiting one and a third
\* process, which was the head of the queue, runs
C18_Witness ==
  /\ pc = "loop"
  /\ evt.type = EVT_CPU_TIMEOUT
  /\ running_pid >= 0 /\ running_pid # evt.pid
  /\ readyQ.count >= 2
  /\ RQ_contents(readyQ)[readyQ.count] = evt.pid
  /\ g_processes[running_pid].wait_time > 0

\* the end of the k-th dispatched slice, 0 before the first
SliceEnd(k) == IF k = 0 THEN 0 ELSE timeline[k].start + timeline[k].slice

\* the CPU-free time between the dispatched slices so far
RECURSIVE GapsUpTo(_)
GapsUpTo(k) ==
  IF k = 0 THEN 0 ELSE (timeline[k].start - SliceEnd(k - 1)) + GapsUpTo(k - 1)

RECURSIVE AllCpuBursts(_)
AllCpuBursts(i) ==
  IF i >= g_numProcs THEN 0
  ELSE SumSeq(g_processes[i].cpu_bursts) + AllCpuBursts(i + 1)

\* C19: the dispatched slices never overlap and the idle time is at every
\* point the total CPU-free time before and between them; at the end of a
\* run the makespan is the end of the last slice, makespan minus idle time is
\* the sum of all CPU bursts of all processes, and 0 <= idle <= makespan.
C19_IdleConservation ==
  /\ pc \in {"loop", "done"} =>
       /\ \A k \in 1..Len(timeline) : timeline[k].start >= SliceEnd(k - 1)
       /\ cpu_idle_time = GapsUpTo(Len(timeline))
       /\ cpu_busy_until = SliceEnd(Len(timeline))
  /\ pc = "done" =>
       /\ aggregate.total_idle = GapsUpTo(Len(timeline))
       /\ aggregate.simulation_end = SliceEnd(Len(timeline))
       /\ aggregate.simulation_end - aggregate.total_idle = AllCpuBursts(0)
       /\ 0 <= aggregate.total_idle
       /\ aggregate.total_idle <= aggregate.simulation_end

\* a run has ended with the CPU idle before the first dispatch and again
\* during an I/O burst, and the process that finished last is not the last
\* of the table
C19_Witness ==
  /\ pc = "done"
  /\ g_numProcs >= 2
  /\ timeline[1].start > 0
  /\ \E k \in 2..Len(timeline) : timeline[k].start > SliceEnd(k - 1)
  /\ g_processes[g_numProcs - 1].finish_time < aggregate.simulation_end

\* C20: a run with n processes has queues of capacity 4n and n + 10, keeps
\* at most one pending event and at most one ready entry per process, so at
\* most n of each, never reports an overflow, and loses nothing: every
\* unfinished process has an event or a ready entry.
C20_QueueBounds ==
  pc \in {"loop", "done"} =>
    /\ eventQ.capacity = HEAP_FACTOR * g_numProcs
    /\ readyQ.capacity = g_numProcs + RQ_EXTRA
    /\ Len(eventQ.heapArray) <= g_numProcs
    /\ readyQ.count <= g_numProcs
    /\ \A i \in Pids :
         /\ Cardinality(PendingOf(i)) <= 1
         /\ ReadyCount(i) <= 1
         /\ ~Finished(i) => (PendingOf(i) # {} \/ ReadyCount(i) = 1)
    /\ overflows = 0

\* as many entries as the population allows: one process runs, the others wait
C20_Witness ==
  /\ pc = "loop"
  /\ g_numProcs = 3
  /\ running_pid >= 0
  /\ readyQ.count = g_numProcs - 1
  /\ Len(eventQ.heapArray) = 1

\* C21: between event handlers the CPU is free only if the ready queue is
\* empty: no process is left waiting in the queue while nothing runs.
C21_WorkConserving ==
  pc \in {"loop", "done"} => (running_pid = -1 => readyQ.count = 0)

\* a completion has just handed the CPU to a process that had been waiting,
\* and another one still waits
C21_Witness ==
  /\ pc = "loop"
  /\ evt.type = EVT_CPU_COMPLETE
  /\ running_pid >= 0 /\ running_pid # evt.pid
  /\ g_processes[running_pid].start_run_time = current_time
  /\ readyQ.count >= 1

\* position of process i in the ready queue, 0 when it is not queued
QueuePos(i) ==
  IF ReadyCount(i) = 0 THEN 0
  ELSE CHOOSE k \in 1..readyQ.count : RQ_contents(readyQ)[k] = i

\* the ARRIVE handled j-th and the CPU_TIMEOUT handled k-th carry one timestamp
SameTimePair(j, k) ==
  /\ handled[j].type = EVT_ARRIVE
  /\ handled[k].type = EVT_CPU_TIMEOUT
  /\ handled[j].time = handled[k].time

\* for every ARRIVE of A and CPU_TIMEOUT of B with the same timestamp t the
\* ARRIVE was handled first; when the timeout has just been handled A runs
\* or is queued ahead of B, and B is dispatched again only after A was
TieBreak ==
  \A j, k \in 1..Len(handled) :
    SameTimePair(j, k) =>
      LET A == handled[j].pid
          B == handled[k].pid
          t == handled[k].time
      IN /\ j < k
         /\ A # B
         /\ k = Len(handled) =>
              (running_pid = A \/ (QueuePos(A) > 0 /\ QueuePos(A) < QueuePos(B)))
         /\ \A m \in 1..Len(timeline) :
              (timeline[m].pid = B /\ timeline[m].start >= t) =>
                \E m1 \in 1..(m - 1) :
                  timeline[m1].pid = A /\ timeline[m1].start >= t

\* every CPU burst of every process lasts at least one time unit
PositiveCpuBursts ==
  \A i \in Pids : \A b \in 1..Len(g_processes[i].cpu_bursts) :
    g_processes[i].cpu_bursts[b] >= 1

\* C22 as stated: in every run (no burst duration is negative) an ARRIVE and
\* a CPU_TIMEOUT with the same timestamp are handled ARRIVE first, and the
\* arriving process is queued ahead of and dispatched before the preempted one.
C22_TieBreakAsStated == pc \in {"loop", "done"} => TieBreak

\* C22 amended: the same, in runs where every CPU burst is strictly positive
\* (I/O bursts may be zero).
C22_TieBreakPositive ==
  (pc \in {"loop", "done"} /\ PositiveCpuBursts) => TieBreak

\* an arrival and a timeout of the same instant have been handled, the
\* preempted process ran again and the arriving one before it
C22_Witness ==
  /\ pc = "done"
  /\ PositiveCpuBursts
  /\ \E j, k \in 1..Len(handled) :
       /\ SameTimePair(j, k) /\ j < k
       /\ \E m \in 1..Len(timeline) :
            /\ timeline[m].pid = handled[k].pid
            /\ timeline[m].start > handled[k].time

\* C23: the wait time printed in a process's completion record, turnaround
\* minus total_cpu_io, equals the wait_time the dispatcher accumulated for
\* the process, and is not negative.
C23_PrintedWaitIsQueueWait ==
  \A k \in 1..Len(records) :
    /\ records[k].wtime = g_processes[records[k].pid].wait_time
    /\ records[k].wtime >= 0

----------------------------------------------------------------------------
(* Properties of rebuild *)

Foodules == 1..foodep.n

\* the direct dependencies of u
Deps(u) == {foodep.deps[u][k] : k \in 1..Len(foodep.deps[u])}

\* S and everything reachable from it in at most k dependency steps
RECURSIVE ReachWithin(_, _)
ReachWithin(S, k) ==
  IF k = 0 THEN S
  ELSE ReachWithin(S \cup UNION {Deps(u) : u \in S}, k - 1)

\* the foodule of the root invocation and all it depends on, directly or not
Reachable == ReachWithin({rb[1].u}, foodep.n)

Rebuilt == {rb_out[k] : k \in 1..Len(rb_out)}

Marked == {i \in Foodules : done_txt[i] = "1"}

\* the root invocation has reset done.txt
AfterReset == pc = "rebuild" /\ rb[1].st # "entry"

RebuildDone == pc = "rebuild" /\ rb[1].st = "exited"

\* C24: a root invocation on an acyclic dependency file creates at most one
\* process per foodule and only for foodules reachable from the root; no
\* foodule is reported twice; once done.txt is reset its marked foodules are
\* exactly the reported ones; the root eventually exits, and then every
\* process has exited and the reported foodules are exactly the reachable.
C24_RebuildsReachableOnce ==
  /\ [](pc = "rebuild" =>
          /\ \A a, b \in 1..Len(rb) : a # b => rb[a].u # rb[b].u
          /\ \A a \in 1..Len(rb) : rb[a].u \in Reachable
          /\ \A j, k \in 1..Len(rb_out) : j # k => rb_out[j] # rb_out[k]
          /\ Rebuilt \subseteq Reachable
          /\ AfterReset => Marked = Rebuilt
          /\ RebuildDone =>
               /\ Rebuilt = Reachable
               /\ \A a \in 1..Len(rb) : rb[a].st = "exited")
  /\ <>RebuildDone

\* the build is over; a foodule was a dependency of two rebuilt ones and
\* another foodule was out of reach of the root
C24_Witness ==
  /\ RebuildDone
  /\ Reachable # Foodules
  /\ \E v \in Reachable :
       Cardinality({u \in Reachable : v \in Deps(u)}) >= 2

\* C25: once done.txt is reset, a marked foodule has all its direct
\* dependencies marked and a reported one had them reported before it; at
\* most one process is outside waitpid and not exited, so only one can
\* touch done.txt; and no write to done.txt clears a mark.
C25_DependenciesFirst ==
  /\ [](AfterReset =>
          /\ \A u \in Marked : Deps(u) \subseteq Marked
          /\ \A k \in 1..Len(rb_out) :
               \A v \in Deps(rb_out[k]) : \E j \in 1..(k - 1) : rb_out[j] = v
          /\ Cardinality({a \in 1..Len(rb) :
                            rb[a].st \notin {"wait", "exited"}}) <= 1
          /\ \A a \in 1..Len(rb) :
               rb[a].st = "wait" => rb[a].child \in 1..Len(rb))
  /\ [][AfterReset => \A i \in Foodules :
                        done_txt[i] = "1" => done_txt'[i] = "1"]_vars

\* a process has marked its foodule after waiting for a child it forked for
\* its last dependency, the child itself having had a child
C25_Witness ==
  /\ AfterReset
  /\ \E a, b, c \in 1..Len(rb) :
       /\ rb[b].parent = a /\ rb[c].parent = b
       /\ Len(rb[a].deps) >= 2
       /\ rb[b].u = rb[a].deps[Len(rb[a].deps)]
       /\ rb[a].st = "exited"
       /\ rb[a].u \in Marked /\ rb[b].u \in Marked /\ rb[c].u \in Marked

====
